---- MODULE Spec2Model ----
(***************************************************************************)
(* EchoPath client: the bridge between the Firebase identity and the API   *)
(* bearer token.  AuthProvider (contexts/AuthContext.jsx) owns the auth    *)
(* state listener, authenticateWithAPI and the axios response interceptor; *)
(* the pages (TextTranslation, VoiceTranslation, SimpleDashboard,          *)
(* Dashboard) each obtain/attach the token on their own.                   *)
(***************************************************************************)
EXTENDS Integers, Sequences, FiniteSets, TLC

\* ---------------------------------------------------------------- bounds
MaxCalls == 1       \* page handler invocations in flight at once
MaxChains == 1      \* sign-in chains of the auth listener in flight at once
MaxTokens == 2      \* bearer tokens the Token Exchange Endpoint mints
MaxNet == 3         \* cap on HTTP requests of one handler invocation
MaxDepth == 1       \* cap on nested interceptor activations of one invocation

\* the first MaxChains slots hold the listener's authenticateWithAPI chains,
\* the others the page handlers' invocations
Calls == 1..(MaxChains + MaxCalls)
ChainSlots == 1..MaxChains
PageSlots == Calls \ ChainSlots

\* ---------------------------------------------------------------- values
Null == 0           \* JS null: localStorage.getItem of a missing key
Undefined == -1     \* JS undefined: response.data has no access_token
UndefStr == -2      \* the string "undefined"

NoUser == "null"
Principal == "firebaseUser"

StatusOK == 200
Unauthorized == 401
ServerError == 500
NetworkError == 0   \* no HTTP response at all (error.response is undefined)
Statuses == {StatusOK, Unauthorized, ServerError, NetworkError}

\* tokens are the strings the endpoint mints, numbered 1..MaxTokens
Truthy(x) == x \notin {Null, Undefined}

\* String(x), as localStorage.setItem and a template literal apply it
Text(x) == IF x = Undefined THEN UndefStr ELSE x

NoHeader == [scheme |-> "absent", cred |-> Null]
EmptyHeader == [scheme |-> "", cred |-> Null]
\* `Bearer ${x}`: a null x renders as "Bearer null", an undefined one as
\* "Bearer undefined"
Bearer(x) == [scheme |-> "Bearer", cred |-> Text(x)]

NoResult == [status |-> -1, att |-> 0, tok |-> Null]

AxiosSites == {"signin", "text", "history", "clear", "echo", "health"}
EnsureSites == {"text", "history", "voice", "tts"}
PageSites == {"text", "history", "clear", "echo", "voice", "tts", "health", "photo"}

\* the translate handlers, which raise isTranslating / isProcessing
BusySites == {"text", "voice", "photo"}

\* /api/health and /api/info are not Resource Endpoints
ResourceSites == PageSites \ {"health"}

UsesAxios(site) == site \in AxiosSites

\* the page components and the handlers each of them offers
Pages == {"Login", "TextTranslation", "VoiceTranslation", "PhotoTranslation",
          "SimpleDashboard", "Dashboard"}

SitesOf(r) ==
  CASE r = "TextTranslation" -> {"text"}
    [] r = "VoiceTranslation" -> {"voice", "tts"}
    [] r = "PhotoTranslation" -> {"photo"}
    [] r = "SimpleDashboard" -> {"history", "clear"}
    [] r = "Dashboard" -> {"echo", "health"}
    [] OTHER -> {}

\* the pages that subscribe to onAuthStateChanged themselves
HasOwnListener(r) == r \in {"TextTranslation", "VoiceTranslation", "PhotoTranslation"}

VARIABLES
  idpUser,        \* auth.currentUser of the Identity Provider
  pending,        \* an auth state change not yet delivered to AuthProvider's listener
  user,           \* AuthProvider state `user`
  apiToken,       \* AuthProvider state `apiToken`
  storage,        \* localStorage['api_token'] (Null when the key is missing)
  defaultHeader,  \* axios.defaults.headers.common['Authorization']
  minted,         \* number of tokens the Token Exchange Endpoint has issued
  page,           \* the page component that is mounted
  calls,          \* the handler invocations
  gsi             \* the GoogleAuthButton and the Google Identity script

vars == <<idpUser, pending, user, apiToken, storage, defaultHeader, minted, page, calls, gsi>>

\* the checks of one GoogleAuthButton stop below this count
PollLimit == 50

\* what `window` holds of the Google script: nothing, a `google` object
\* without `accounts`, or `google.accounts`
WindowStates == {"none", "google", "accounts"}

\* a GoogleAuthButton that is not mounted: checkCount and isGoogleLoaded are
\* the closure variable and the component state of the mount to come, timer
\* is a pending setTimeout(checkGoogleIdentity), inits counts the calls of
\* initGoogleIdentity
NoButton ==
  [mounted |-> FALSE, window |-> "none", checkCount |-> 0, timer |-> FALSE,
   inits |-> 0, isGoogleLoaded |-> FALSE]

IdleCall ==
  [site |-> "none", pc |-> "idle", stack |-> <<>>, tok |-> Null,
   res |-> 0, ex |-> 0, asserts |-> 0, forced |-> 0,
   hdr1 |-> NoHeader, hdr |-> NoHeader,
   exHdr |-> NoHeader, exNet |-> FALSE, busy |-> FALSE, empty |-> FALSE,
   start |-> "none", cached0 |-> Null,
   ans1 |-> -1, authed401 |-> FALSE, all401 |-> TRUE,
   refreshFailed |-> FALSE, result |-> NoResult]

\* ------------------------------------------------- AuthProvider closures
\* const [user, setUser] = useState(null)
InitialUser == NoUser

InterceptorUserLive == user

\* the interceptor is installed by an effect with an empty dependency list,
\* so the `user` it reads is the one of the render that mounted the provider
InterceptorUser == InitialUser

ShouldRefreshOnFailure(status, u) == status # StatusOK

\* if (error.response?.status === 401 && user)
ShouldRefresh(status, u) == status = Unauthorized /\ u # NoUser

OnFulfilledStripped(response) == [response EXCEPT !.att = 0]

\* (response) => response
OnFulfilled(response) == response

\* ------------------------------------------------------ page conventions
NeedsExchangeIgnoringCache(token, currentUser) == currentUser # NoUser

NeedsExchangeIgnoringPrincipal(token, currentUser) == ~Truthy(token)

\* if (!token && auth?.currentUser)
NeedsExchange(token, currentUser) == ~Truthy(token) /\ currentUser # NoUser

\* the Authorization value each call site builds from its token
AuthHeader(site, token) ==
  CASE site \in {"history", "clear", "echo"} -> Bearer(token)
    [] site \in {"text", "voice"} -> IF Truthy(token) THEN Bearer(token) ELSE NoHeader
    [] site = "tts" -> IF Truthy(token) THEN Bearer(token) ELSE EmptyHeader
    [] OTHER -> NoHeader

\* axios merges defaults.headers.common under the per-request headers;
\* fetch sends exactly the headers it is given
WireHeader(site, perRequest, default) ==
  IF UsesAxios(site) /\ perRequest = NoHeader THEN default ELSE perRequest

\* ------------------------------------------------ one handler invocation
\* The functions below take and return a record w: the invocation (w.call)
\* together with the shared state it reads and writes.

FinishKeepingFlag(w, out) == [w EXCEPT !.call.pc = "done", !.call.result = out]

\* the handler returns; its finally block lowers the busy flag
Finish(w, out) ==
  [w EXCEPT !.call.pc = "done", !.call.result = out, !.call.busy = FALSE]

\* the resource request leaves the page
SendResource(w, perRequest) ==
  LET k == w.call
      wire == WireHeader(k.site, perRequest, w.defaultHeader)
      first == k.res = 0
  IN [w EXCEPT !.call.pc = "sent",
               !.call.res = k.res + 1,
               !.call.hdr = wire,
               !.call.hdr1 = IF first THEN wire ELSE @]

\* the request to /api/auth/firebase leaves: no call site gives it an
\* Authorization header of its own
SendExchange(w) ==
  [w EXCEPT !.call.ex = @ + 1,
            !.call.exHdr = WireHeader(w.call.site, NoHeader, w.defaultHeader)]

\* TextTranslation re-reads localStorage (token2); the others use their local token
Dispatch(w) ==
  LET k == w.call
      token == IF k.site = "text" THEN w.storage ELSE k.tok
  IN SendResource(w, AuthHeader(k.site, token))

EnsureThrewClearing(w, out) ==
  IF w.call.site \in {"text", "voice"} THEN Dispatch(w)
  ELSE Finish([w EXCEPT !.apiToken = Null, !.storage = Null,
                        !.defaultHeader = NoHeader], out)

\* the assertion request or the exchange threw inside the ensure-token snippet:
\* text and voice wrap it in their own try/catch and go on; history and tts
\* fall to the handler's catch; authenticateWithAPI returns null
EnsureThrew(w, out) ==
  IF w.call.site \in {"text", "voice"} THEN Dispatch(w) ELSE Finish(w, out)

\* the exchange of the ensure-token snippet (or of authenticateWithAPI) settled
EnsureSettled(w, out) ==
  LET site == w.call.site
      t == out.tok
      got == [w EXCEPT !.call.tok = t]
      stored == [got EXCEPT !.storage = t]
  IN CASE site = "signin" ->
            IF out.status = StatusOK
              THEN Finish([got EXCEPT !.apiToken = t,
                                      !.storage = Text(t),
                                      !.defaultHeader = Bearer(t)], out)
              ELSE EnsureThrew(w, out)
       [] site = "text" ->
            IF out.status = StatusOK
              THEN Dispatch(IF Truthy(t)
                              THEN [stored EXCEPT !.defaultHeader = Bearer(t)]
                              ELSE got)
              ELSE EnsureThrew(w, out)
       [] site = "history" ->
            IF out.status = StatusOK
              THEN Dispatch(IF Truthy(t) THEN stored ELSE got)
              ELSE EnsureThrew(w, out)
       [] site = "voice" ->
            IF out.status = StatusOK
              THEN Dispatch(IF Truthy(t) THEN stored ELSE got)
              ELSE Dispatch(w)
       [] site = "tts" ->
            IF out.status = StatusOK
              THEN Dispatch(IF Truthy(t) THEN stored ELSE got)
              ELSE IF out.status = NetworkError THEN EnsureThrew(w, out)
              ELSE Dispatch(w)
       [] OTHER -> w

BaseRetrying(w, kind, out) ==
  IF kind = "exchange" THEN EnsureSettled(w, out)
  ELSE IF out.status = Unauthorized /\ w.call.res < 2 THEN Dispatch(w)
  ELSE Finish(w, out)

\* the promise the page handler itself awaits settled
Base(w, kind, out) ==
  IF kind = "exchange" THEN EnsureSettled(w, out) ELSE Finish(w, out)

\* ------------------------------------------- axios response interceptor
\* An activation of the rejected-handler is a frame
\*   [orig: the request whose error it handles, err: that error, step]
\* step "assert": awaiting user.getIdToken(true); "exchange": awaiting the
\* axios.post to /api/auth/firebase; "retry": axios.request(error.config) was
\* returned; "logout": awaiting logOut().

Push(w, frame) == [w EXCEPT !.call.stack = <<frame>> \o @]

SetTop(w, step) == [w EXCEPT !.call.stack[1].step = step]

\* lines 106-113: store the new token and send the original request again
RefreshStored(w, top, out) ==
  LET t == out.tok
      w1 == [w EXCEPT !.apiToken = t,
                      !.storage = Text(t),
                      !.defaultHeader = Bearer(t)]
      w2 == IF top.orig = "resource"
              THEN [w1 EXCEPT !.call.res = @ + 1, !.call.hdr = Bearer(t)]
              ELSE [w1 EXCEPT !.call.ex = @ + 1, !.call.exHdr = Bearer(t)]
  IN SetTop(w2, "retry")

\* the promise of a request of the given kind settles with out: whoever
\* awaits it goes on
RECURSIVE Resolve(_, _, _)
Resolve(w, kind, out) ==
  IF w.call.stack = <<>> THEN Base(w, kind, out)
  ELSE LET top == Head(w.call.stack) IN
    IF top.step = "exchange"
      THEN IF out.status = StatusOK
             THEN RefreshStored(w, top, out)
             ELSE [SetTop(w, "logout") EXCEPT !.call.refreshFailed = TRUE]
      ELSE Resolve([w EXCEPT !.call.stack = Tail(@)], top.orig, out)

\* a response (or failure) arrives for an axios request: the interceptor runs
Arrive(w, kind, out) ==
  IF out.status = StatusOK THEN Resolve(w, kind, OnFulfilled(out))
  ELSE IF ShouldRefresh(out.status, InterceptorUser)
    THEN [Push(w, [orig |-> kind, err |-> out, step |-> "assert"])
            EXCEPT !.call.asserts = @ + 1, !.call.forced = @ + 1]
  ELSE Resolve(w, kind, out)

\* which HTTP request of the invocation is in flight
InFlight(k) ==
  IF k.stack = <<>>
    THEN CASE k.pc = "exchange" -> "exchange"
           [] k.pc = "sent" -> "resource"
           [] OTHER -> "none"
    ELSE LET top == Head(k.stack) IN
         CASE top.step = "exchange" -> "exchange"
           [] top.step = "retry" -> top.orig
           [] OTHER -> "none"

\* which Identity Provider promise the invocation awaits
IdpWait(k) ==
  IF k.stack = <<>>
    THEN IF k.pc = "assert" THEN "assert" ELSE "none"
    ELSE LET top == Head(k.stack) IN
         IF top.step \in {"assert", "logout"} THEN top.step ELSE "none"

\* ---------------------------------------------------------------- state
World(c) ==
  [call |-> calls[c], storage |-> storage, defaultHeader |-> defaultHeader,
   apiToken |-> apiToken, idpUser |-> idpUser, pending |-> pending]

WithinCaps(k) == k.res + k.ex <= MaxNet /\ Len(k.stack) <= MaxDepth

\* the locals of an invocation that has returned are gone at the next step
Retired(k) == IF k.pc = "done" THEN IdleCall ELSE k

Commit(c, w) ==
  /\ WithinCaps(w.call)
  /\ calls' = [d \in Calls |-> IF d = c THEN w.call ELSE Retired(calls[d])]
  /\ storage' = w.storage
  /\ defaultHeader' = w.defaultHeader
  /\ apiToken' = w.apiToken
  /\ idpUser' = w.idpUser
  /\ pending' = w.pending

CommitShared(w) ==
  /\ storage' = w.storage
  /\ defaultHeader' = w.defaultHeader
  /\ apiToken' = w.apiToken
  /\ idpUser' = w.idpUser
  /\ pending' = w.pending
  /\ calls' = [d \in Calls |-> Retired(calls[d])]

\* a new invocation takes the first slot of S whose invocation has returned
Free(c) == calls[c].pc \in {"idle", "done"}


FreeSlot(c, S) ==
  /\ c \in S
  /\ Free(c)
  /\ \A d \in S : d < c => ~Free(d)

Init ==
  /\ idpUser \in {NoUser, Principal}
  /\ pending = TRUE
  /\ user = InitialUser
  /\ storage \in {Null, 1}
  /\ apiToken = storage
  /\ defaultHeader = IF Truthy(storage) THEN Bearer(storage) ELSE NoHeader
  /\ minted = IF storage = Null THEN 0 ELSE 1
  /\ page \in Pages
  /\ calls = [c \in Calls |-> IdleCall]
  /\ gsi = NoButton

\* -------------------------------------------------------------- actions
\* what the invocation found when it began: a cached token ("cached"), no
\* token and nobody signed in ("anon"), or no token and a principal ("fresh")
StartKind(token, currentUser) ==
  IF Truthy(token) THEN "cached"
  ELSE IF currentUser = NoUser THEN "anon" ELSE "fresh"

ClearSessionKeepingStorage(w) ==
  [w EXCEPT !.apiToken = Null, !.defaultHeader = NoHeader]

\* authenticateWithAPI(null): the signed-out branch
ClearSession(w) ==
  [w EXCEPT !.apiToken = Null, !.storage = Null, !.defaultHeader = NoHeader]

\* the handlers that begin with a guard on their input:
\* if (!inputText.trim()) return, if (!audioBlob) return, ...
InputGuarded(site) == site \in {"text", "voice", "tts", "photo", "echo"}

ProceedsAlways(site, hasInput) == TRUE

Proceeds(site, hasInput) == hasInput \/ ~InputGuarded(site)

\* a page handler is invoked, with or without something to work on, and runs
\* to its first await
Start(c, site, hasInput) ==
  /\ FreeSlot(c, PageSlots)
  /\ site \in SitesOf(page)
  /\ ~hasInput => InputGuarded(site)
  /\ LET k0 == [IdleCall EXCEPT !.site = site,
                                !.empty = ~hasInput,
                                !.busy = site \in BusySites,
                                !.start = StartKind(storage, idpUser),
                                !.cached0 = storage,
                                !.tok = IF site = "echo" THEN apiToken ELSE storage]
         w0 == [World(c) EXCEPT !.call = k0]
         returned == [IdleCall EXCEPT !.site = site, !.empty = TRUE, !.pc = "done"]
     IN IF ~Proceeds(site, hasInput)
          THEN Commit(c, [World(c) EXCEPT !.call = returned])
        ELSE IF site \in EnsureSites /\ NeedsExchange(storage, idpUser)
          THEN Commit(c, [w0 EXCEPT !.call.pc = "assert", !.call.asserts = 1])
          ELSE Commit(c, Dispatch(w0))
  /\ UNCHANGED <<user, minted, page>>
  /\ UNCHANGED gsi

\* AuthProvider's onAuthStateChange callback
Listener ==
  /\ pending
  /\ user' = idpUser
  /\ IF idpUser = NoUser
       THEN CommitShared(ClearSession([World(1) EXCEPT !.pending = FALSE]))
       ELSE \E c \in ChainSlots :
              /\ FreeSlot(c, ChainSlots)
              /\ LET k0 == [IdleCall EXCEPT !.site = "signin",
                                            !.start = StartKind(storage, idpUser),
                                            !.cached0 = storage,
                                            !.pc = "assert",
                                            !.asserts = 1]
                 IN Commit(c, [World(c) EXCEPT !.call = k0, !.pending = FALSE])
  /\ UNCHANGED <<minted, page>>
  /\ UNCHANGED gsi

\* the Identity Provider settles the promise the invocation awaits:
\* getIdToken() of the ensure-token snippet, getIdToken(true) or logOut() of
\* the interceptor
IdpSettle(c, ok) ==
  /\ IdpWait(calls[c]) # "none"
  /\ LET w == World(c)
         k == calls[c]
         failure == [status |-> NetworkError, att |-> 0, tok |-> Null]
     IN IF k.stack = <<>>
          THEN IF ok
                 THEN Commit(c, SendExchange([w EXCEPT !.call.pc = "exchange"]))
                 ELSE Commit(c, EnsureThrew(w, failure))
          ELSE LET top == Head(k.stack) IN
               IF top.step = "assert"
                 THEN IF ok
                        THEN Commit(c, SendExchange(SetTop(w, "exchange")))
                        ELSE Commit(c, [SetTop(w, "logout") EXCEPT !.call.refreshFailed = TRUE])
                 ELSE LET out == IF ok
                                   THEN [w EXCEPT !.idpUser = NoUser,
                                                  !.pending = @ \/ w.idpUser # NoUser]
                                   ELSE w
                      IN Commit(c, Resolve([out EXCEPT !.call.stack = Tail(@)],
                                           top.orig, top.err))
  /\ UNCHANGED <<user, minted, page>>
  /\ UNCHANGED gsi

\* the network settles the HTTP request the invocation has in flight; a 200
\* answer of the exchange holds an access_token or lacks it (hasToken)
HttpSettle(c, status, hasToken) ==
  LET k == calls[c]
      kind == InFlight(k)
      newTok == kind = "exchange" /\ status = StatusOK /\ hasToken
      out == IF kind = "exchange"
               THEN [status |-> status, att |-> 0,
                     tok |-> IF newTok THEN minted + 1
                             ELSE IF status = StatusOK THEN Undefined ELSE Null]
               ELSE [status |-> status, att |-> k.res, tok |-> Null]
      seen == IF kind = "resource"
                THEN [k EXCEPT
                        !.ans1 = IF k.ans1 = -1 THEN status ELSE @,
                        !.authed401 = IF k.ans1 = -1
                                        THEN /\ status = Unauthorized
                                             /\ idpUser # NoUser
                                             /\ user # NoUser
                                             /\ ~pending
                                        ELSE @,
                        !.all401 = @ /\ status = Unauthorized]
                ELSE [k EXCEPT !.exHdr = NoHeader,
                               !.exNet = @ \/ status = NetworkError]
      w == [World(c) EXCEPT !.call = seen]
  IN /\ kind # "none"
     /\ ~hasToken => (kind = "exchange" /\ status = StatusOK)
     /\ newTok => minted < MaxTokens
     /\ minted' = IF newTok THEN minted + 1 ELSE minted
     /\ IF UsesAxios(k.site)
          THEN Commit(c, Arrive(w, kind, out))
          ELSE Commit(c, Base(w, kind, out))
     /\ UNCHANGED <<user, page>>
     /\ UNCHANGED gsi

\* signOut(auth) of the Firebase SDK
SignOutAuth ==
  /\ idpUser # NoUser
  /\ ~pending
  /\ idpUser' = NoUser
  /\ pending' = TRUE
  /\ calls' = [d \in Calls |-> Retired(calls[d])]
  /\ UNCHANGED <<user, apiToken, storage, defaultHeader, minted>>
  /\ UNCHANGED gsi

\* a sign-in completes at the Identity Provider
SignIn ==
  /\ idpUser = NoUser
  /\ ~pending
  /\ idpUser' = Principal
  /\ pending' = TRUE
  /\ calls' = [d \in Calls |-> Retired(calls[d])]
  /\ UNCHANGED <<user, apiToken, storage, defaultHeader, minted, page>>
  /\ UNCHANGED gsi

\* the router mounts another page once the handlers of this one have returned
Navigate(r) ==
  /\ r # page
  /\ \A c \in PageSlots : Free(c)
  /\ page' = r
  /\ calls' = [d \in Calls |-> Retired(calls[d])]
  /\ UNCHANGED <<idpUser, pending, user, apiToken, storage, defaultHeader, minted>>
  /\ UNCHANGED gsi

\* Dashboard.handleLogout -> AuthProvider.signOut -> logOut -> signOut(auth)
ContextSignOut ==
  /\ page = "Dashboard"
  /\ SignOutAuth
  /\ UNCHANGED page
  /\ UNCHANGED gsi

\* SimpleDashboard.handleSignOut: signOut(auth), then navigate('/login')
PageSignOut ==
  /\ page = "SimpleDashboard"
  /\ SignOutAuth
  /\ page' = "Login"

\* the mounted page's own onAuthStateChanged callback, which the SDK calls
\* after the page subscribes and after every change: navigate('/login') when
\* nobody is signed in (with a principal it only sets page-local state)
PageListener ==
  /\ HasOwnListener(page)
  /\ idpUser = NoUser
  /\ page' = "Login"
  /\ calls' = [d \in Calls |-> Retired(calls[d])]
  /\ UNCHANGED <<idpUser, pending, user, apiToken, storage, defaultHeader, minted>>
  /\ UNCHANGED gsi

\* SimpleDashboard's effect on the context's user: if (!loading && !user)
\* navigate('/login'); loading is false once the listener's signed-out
\* branch has run
RedirectEffect ==
  /\ page = "SimpleDashboard"
  /\ ~pending
  /\ user = NoUser
  /\ page' = "Login"
  /\ calls' = [d \in Calls |-> Retired(calls[d])]
  /\ UNCHANGED <<idpUser, pending, user, apiToken, storage, defaultHeader, minted>>
  /\ UNCHANGED gsi

Next ==
  \/ \E c \in PageSlots, site \in PageSites, hasInput \in BOOLEAN :
       Start(c, site, hasInput)
  \/ Listener
  \/ \E c \in Calls, ok \in BOOLEAN : IdpSettle(c, ok)
  \/ \E c \in Calls, status \in Statuses, hasToken \in BOOLEAN :
       HttpSettle(c, status, hasToken)
  \/ \E r \in Pages : Navigate(r)
  \/ SignIn
  \/ ContextSignOut
  \/ PageSignOut
  \/ PageListener
  \/ RedirectEffect

Spec == Init /\ [][Next]_vars

\* fairness of the listener alone: the SDK delivers every state change
ListenerFairSpec == Spec /\ WF_vars(Listener)

\* fairness of every auth listener, of the redirect effect and of the
\* promises in flight: a page that is to navigate to /login does so, and every
\* request is answered or fails
PageFairSpec ==
  /\ Spec
  /\ WF_vars(Listener)
  /\ WF_vars(PageListener)
  /\ WF_vars(RedirectEffect)
  /\ WF_vars(\E c \in Calls, ok \in BOOLEAN : IdpSettle(c, ok))
  /\ WF_vars(\E c \in Calls, status \in Statuses, hasToken \in BOOLEAN :
               HttpSettle(c, status, hasToken))

\* fairness of each page handler's promises: every request and every Identity
\* Provider call of an invocation is answered or fails
HandlerFairSpec ==
  /\ Spec
  /\ \A c \in PageSlots :
       /\ WF_vars(\E ok \in BOOLEAN : IdpSettle(c, ok))
       /\ WF_vars(\E status \in Statuses, hasToken \in BOOLEAN :
                    HttpSettle(c, status, hasToken))

\* ----------------------------------------------------------- properties
\* the invocation in slot c sends its resource request in this step
Dispatched(c) ==
  /\ calls[c].pc # "sent"
  /\ calls'[c].pc = "sent"
  /\ calls'[c].site \in ResourceSites

\* the invocation got 401 on its first attempt with a cached token while the
\* principal was signed in and known to AuthProvider, and no refresh step failed
Rejected(k) ==
  /\ k.pc = "done"
  /\ UsesAxios(k.site)
  /\ k.site \in ResourceSites
  /\ k.start = "cached"
  /\ k.authed401
  /\ ~k.refreshFailed

\* the state the signed-out branch leaves behind
SessionCleared ==
  /\ ~pending
  /\ idpUser = NoUser
  /\ storage = Null
  /\ defaultHeader = NoHeader
  /\ apiToken = Null

\* C1: a signed-in axios call that is answered 401 on every attempt makes
\* exactly two resource requests and exactly one token exchange.
C1_BoundedRetry ==
  \A c \in PageSlots :
    (Rejected(calls[c]) /\ calls[c].all401)
      => (calls[c].res = 2 /\ calls[c].ex = 1)

\* an invocation that has not returned awaits a promise that can settle
CanSettle(c) ==
  \/ ENABLED (\E ok \in BOOLEAN : IdpSettle(c, ok))
  \/ ENABLED (\E status \in Statuses : HttpSettle(c, status, TRUE))

\* C2: whatever the endpoints answer, an invocation sends at most one resource
\* request, one assertion request and one token exchange, never waits inside
\* an interceptor activation, and is never left without a promise to settle.
C2_Termination ==
  \A c \in Calls :
    /\ calls[c].res <= 1
    /\ calls[c].ex <= 1
    /\ calls[c].asserts <= 1
    /\ calls[c].stack = <<>>
    /\ calls[c].pc \notin {"idle", "done"} => CanSettle(c)

\* C2 witness: a text call whose exchange failed and whose resource request
\* was answered 401 while the principal was signed in has returned.
C2_Witness ==
  \E c \in PageSlots :
    /\ calls[c].pc = "done"
    /\ calls[c].site = "text"
    /\ calls[c].ex = 1
    /\ calls[c].tok = Null
    /\ calls[c].authed401
    /\ calls[c].result.status = Unauthorized

\* C3: a cached token rejected with 401 while the principal is signed in is
\* followed by a forced-fresh assertion, an exchange, and a retry that carries
\* a Bearer header different from the rejected one.
C3_RefreshOnExpiry ==
  \A c \in PageSlots :
    Rejected(calls[c])
      => /\ calls[c].forced >= 1
         /\ calls[c].ex >= 1
         /\ calls[c].res >= 2
         /\ calls[c].hdr.scheme = "Bearer"
         /\ calls[c].hdr # calls[c].hdr1

\* C4: cached token, 401, successful refresh: three network calls in all and
\* the caller receives the answer of the second resource request.
C4_RefreshScenario ==
  \A c \in PageSlots :
    Rejected(calls[c])
      => /\ calls[c].res + calls[c].ex = 3
         /\ calls[c].result.att = 2

\* C5 (as claimed): with a token cached, no entry point that obtains a token,
\* the sign-in path included, asks for an assertion or calls the exchange.
C5_CachingEveryEntry ==
  \A c \in Calls :
    calls[c].start = "cached" => (calls[c].asserts = 0 /\ calls[c].ex = 0)

\* C5 (amended): with a token cached, a page's ensure-token snippet asks for no
\* assertion, calls no exchange, and keeps the cached token.
C5_PageCaching ==
  \A c \in PageSlots :
    (calls[c].site \in EnsureSites /\ calls[c].start = "cached")
      => /\ calls[c].asserts = 0
         /\ calls[c].ex = 0
         /\ calls[c].tok = calls[c].cached0

\* C5 witness: an ensure-token page call that began with a cached token while
\* a principal was signed in has returned.
C5_Witness ==
  \E c \in PageSlots :
    /\ calls[c].pc = "done"
    /\ calls[c].site \in EnsureSites
    /\ calls[c].start = "cached"
    /\ idpUser # NoUser

\* C6: a call that began with a cached token and whose first attempt succeeds
\* calls no exchange and hands the caller the response of that attempt.
C6_TransparentSuccess ==
  \A c \in PageSlots :
    (calls[c].pc = "done" /\ calls[c].start = "cached" /\ calls[c].ans1 = StatusOK)
      => /\ calls[c].ex = 0
         /\ calls[c].res = 1
         /\ calls[c].result = [status |-> StatusOK, att |-> 1, tok |-> Null]

\* C6 witness: an axios call with a cached token has returned a 200 answer.
C6_Witness ==
  \E c \in PageSlots :
    /\ calls[c].pc = "done"
    /\ UsesAxios(calls[c].site)
    /\ calls[c].site \in ResourceSites
    /\ calls[c].start = "cached"
    /\ calls[c].ans1 = StatusOK

\* C7: an ensure-token snippet that finds no token and no signed-in principal
\* asks for no assertion, calls no exchange, and ends with no token.
C7_NoPrincipalNoExchange ==
  \A c \in PageSlots :
    (calls[c].site \in EnsureSites /\ calls[c].start = "anon")
      => /\ calls[c].asserts = 0
         /\ calls[c].ex = 0
         /\ calls[c].tok = Null

\* C7 witness: such a call has sent its resource request and returned.
C7_Witness ==
  \E c \in PageSlots :
    /\ calls[c].pc = "done"
    /\ calls[c].site \in EnsureSites
    /\ calls[c].start = "anon"
    /\ calls[c].res = 1

\* C8: processing a sign-out leaves no api_token and no default header, and a
\* resource request sent while the session stays cleared has no Authorization.
C8_CleanSignOut ==
  [][ /\ (pending /\ idpUser = NoUser /\ ~pending') => SessionCleared'
      /\ \A c \in PageSlots :
           (SessionCleared /\ SessionCleared' /\ Dispatched(c))
             => calls'[c].hdr = NoHeader ]_vars

\* C9: a sign-out, from the context or from the page, is followed by the
\* listener clearing api_token, the default header and apiToken.
C9_SignOutClears ==
  (idpUser = NoUser /\ pending) ~> SessionCleared

\* C9 witness: the sign-out of a principal has been processed after a token
\* had been issued, and nothing is cached.
C9_Witness ==
  /\ SessionCleared
  /\ user = NoUser
  /\ minted >= 1

\* C10: a resource request carries `Bearer <token>` when a token is cached at
\* the time it is sent and no Authorization header at all otherwise.
C10_AttachIfAny ==
  [][ \A c \in PageSlots :
        Dispatched(c)
          => calls'[c].hdr = IF Truthy(storage') THEN Bearer(storage') ELSE NoHeader ]_vars

\* the header carries a token the Token Exchange Endpoint has issued
HoldsToken(h) == h.scheme = "Bearer" /\ h.cred \in 1..MaxTokens

\* the tokens some part of the client holds as the current one
CurrentTokens == {Text(apiToken), storage, defaultHeader.cred} \ {Null}

\* C11: at most one token is held as current, and a resource request sent
\* while a token is stored under api_token carries exactly that token.
C11_SingleCurrentToken ==
  [][ /\ Cardinality(CurrentTokens') <= 1
      /\ \A c \in PageSlots :
           (Dispatched(c) /\ Truthy(storage'))
             => calls'[c].hdr = Bearer(storage') ]_vars

\* C12: no request to the Token Exchange Endpoint and no request to
\* /api/health or /api/info carries an Authorization header with a token.
C12_TokenConfinement ==
  \A c \in Calls :
    /\ ~HoldsToken(calls[c].exHdr)
    /\ calls[c].site = "health" => ~HoldsToken(calls[c].hdr)

EnsureNetFailed(k) ==
  /\ k.site \in EnsureSites
  /\ k.start = "fresh"
  /\ (k.ex = 0 \/ k.exNet)

C15_NoRetryOnNetworkFailure ==
  \A c \in PageSlots :
    LET k == calls[c] IN
    (k.site \in ResourceSites /\ k.ans1 = NetworkError)
      => /\ k.pc = "done"
         /\ k.stack = <<>>
         /\ k.res = 1
         /\ k.forced = 0
         /\ k.ex <= k.asserts
         /\ k.asserts = IF k.site \in EnsureSites /\ k.start = "fresh" THEN 1 ELSE 0
         /\ k.result = [status |-> NetworkError, att |-> 1, tok |-> Null]

\* C15 witness: an axios resource request of a signed-in principal with a
\* cached token failed at transport level and the call has returned.
C15_Witness ==
  \E c \in PageSlots :
    /\ calls[c].pc = "done"
    /\ UsesAxios(calls[c].site)
    /\ calls[c].site \in ResourceSites
    /\ calls[c].start = "cached"
    /\ calls[c].ans1 = NetworkError
    /\ idpUser # NoUser
    /\ user # NoUser

\* C16: on every page with an ensure-token step, a call that found no cached
\* token and whose exchange failed (transport failure, non-2xx answer or an
\* answer without access_token) has no token, still sends its resource request
\* once, and neither refreshes nor exchanges again.
C16_ExchangeFailureNonFatal ==
  \A c \in PageSlots :
    LET k == calls[c] IN
    (/\ k.pc = "done"
     /\ k.site \in EnsureSites
     /\ k.start = "fresh"
     /\ k.ex >= 1
     /\ ~Truthy(k.tok))
      => /\ k.res = 1
         /\ k.ex = 1
         /\ k.forced = 0

C18_AcquisitionSideEffects ==
  [][ minted' = minted + 1
        => (storage' = minted' /\ defaultHeader' = Bearer(minted')) ]_vars

\* C19: when a signed-in call whose cached token was rejected with 401
\* returns, the rejected token is no longer cached anywhere: not under
\* api_token, not as the default header, not in apiToken.
C19_RejectedTokenDiscarded ==
  \A c \in PageSlots :
    (Rejected(calls[c]) /\ HoldsToken(calls[c].hdr1))
      => /\ storage # calls[c].hdr1.cred
         /\ defaultHeader # calls[c].hdr1
         /\ apiToken # calls[c].hdr1.cred

\* C20: after a resource request sent without a token has been answered 401,
\* the client ends up on the sign-in page.
C20_UnauthenticatedRedirect ==
  (\E c \in PageSlots :
     /\ calls[c].pc = "done"
     /\ calls[c].site \in ResourceSites
     /\ ~HoldsToken(calls[c].hdr)
     /\ calls[c].result.status = Unauthorized)
    ~> (page = "Login")

\* C21: the principal the interceptor consults is the one the auth listener
\* delivered last, so a 401 answered to an axios resource request while a
\* delivered principal is signed in takes the refresh branch.
C21_InterceptorPrincipal ==
  /\ InterceptorUser = user
  /\ \A c \in PageSlots :
       (/\ calls[c].pc = "done"
        /\ UsesAxios(calls[c].site)
        /\ calls[c].site \in ResourceSites
        /\ calls[c].authed401)
         => calls[c].forced >= 1

\* the pages that call their Resource Endpoint with fetch
FetchSites == PageSites \ AxiosSites

\* C22: the step in which a fetch resource request (voice, text-to-speech) is
\* answered 401 ends the call with that failure after exactly one resource
\* request, starts no assertion request and no exchange, and leaves api_token,
\* the default header and apiToken as they were.
C22_FetchOutsideRefresh ==
  [][ \A c \in PageSlots :
        (/\ calls[c].site \in FetchSites
         /\ calls[c].ans1 = -1
         /\ calls'[c].ans1 = Unauthorized)
          => /\ calls'[c].pc = "done"
             /\ calls'[c].stack = <<>>
             /\ calls'[c].res = 1
             /\ calls'[c].ex = calls[c].ex
             /\ calls'[c].asserts = calls[c].asserts
             /\ calls'[c].forced = 0
             /\ calls'[c].result = [status |-> Unauthorized, att |-> 1, tok |-> Null]
             /\ UNCHANGED <<storage, defaultHeader, apiToken>> ]_vars

\* C22 witness: a fetch call that sent a cached token has returned the 401,
\* and that token is still stored.
C22_Witness ==
  \E c \in PageSlots :
    /\ calls[c].pc = "done"
    /\ calls[c].site \in FetchSites
    /\ calls[c].start = "cached"
    /\ calls[c].ans1 = Unauthorized
    /\ HoldsToken(calls[c].hdr)
    /\ storage = calls[c].hdr.cred

\* C23: a signed-in call whose cached token was rejected with 401 and that got
\* no retried request had its refresh fail, and logOut had signed the
\* principal out before the 401 was handed to the caller.
C23_FailedRefreshSignsOut ==
  \A c \in PageSlots :
    LET k == calls[c] IN
    (/\ k.pc = "done"
     /\ UsesAxios(k.site)
     /\ k.site \in ResourceSites
     /\ k.start = "cached"
     /\ k.authed401
     /\ k.res = 1)
      => (k.refreshFailed /\ idpUser = NoUser)

\* C24: whenever the default Authorization header is set and api_token is
\* stored, the header is `Bearer <stored token>`.
C24_HeaderStorageAgreement ==
  (defaultHeader # NoHeader /\ storage # Null) => defaultHeader = Bearer(storage)

\* C25: while nobody is signed in and the sign-out notification has been
\* processed, api_token is absent from storage.
C25_NoResurrection ==
  (idpUser = NoUser /\ ~pending /\ user = NoUser) => storage = Null

\* C26: the step in which authenticateWithAPI, called with a principal, ends
\* because the assertion request or the exchange failed returns null and
\* leaves api_token, the default header and apiToken as they were.
C26_FailedExchangeFrame ==
  [][ \A c \in ChainSlots :
        (/\ calls[c].pc \in {"assert", "exchange"}
         /\ calls'[c].pc = "done"
         /\ calls'[c].result.status # StatusOK)
          => /\ calls'[c].result.tok = Null
             /\ calls'[c].res = 0
             /\ UNCHANGED <<storage, defaultHeader, apiToken>> ]_vars

\* C26 witness: authenticateWithAPI has returned after a failed exchange while
\* a token was stored.
C26_Witness ==
  \E c \in ChainSlots :
    /\ calls[c].pc = "done"
    /\ calls[c].site = "signin"
    /\ calls[c].ex = 1
    /\ calls[c].result.status \in {Unauthorized, ServerError, NetworkError}
    /\ HoldsToken(defaultHeader)
    /\ storage = defaultHeader.cred
    /\ apiToken = storage

\* C27: a translate handler that has raised its busy flag lowers it again on
\* every path: the flag is down whenever the handler has returned, and every
\* handler that is busy returns.
C27_BusyFlagClears ==
  /\ [](\A c \in PageSlots : calls[c].pc \in {"idle", "done"} => ~calls[c].busy)
  /\ \A c \in PageSlots : (calls[c].busy ~> ~calls[c].busy)

\* C27 witness: a translate handler whose exchange failed and whose resource
\* request threw a network error has returned.
C27_Witness ==
  \E c \in PageSlots :
    /\ calls[c].pc = "done"
    /\ calls[c].site \in BusySites
    /\ calls[c].ex = 1
    /\ ~Truthy(calls[c].tok)
    /\ calls[c].ans1 = NetworkError
    /\ ~calls[c].busy

\* C28: the step in which a handler is invoked with nothing to work on returns
\* at once: no assertion request, no exchange, no resource request, the busy
\* flag stays down, and neither the stored token nor any other state changes.
C28_NoInputNoEffect ==
  [][ \A c \in PageSlots :
        (calls'[c].empty /\ ~calls[c].empty)
          => /\ calls'[c].pc = "done"
             /\ calls'[c].asserts = 0
             /\ calls'[c].ex = 0
             /\ calls'[c].res = 0
             /\ ~calls'[c].busy
             /\ calls'[c].result = NoResult
             /\ UNCHANGED <<storage, defaultHeader, apiToken, idpUser, pending,
                            user, page, minted>> ]_vars

\* C28 witness: a translate handler invoked with nothing to translate has
\* returned while a principal is signed in and no token is cached.
C28_Witness ==
  \E c \in PageSlots :
    /\ calls[c].empty
    /\ calls[c].pc = "done"
    /\ calls[c].site \in BusySites
    /\ idpUser # NoUser
    /\ storage = Null

\* ------------------------------------------- Google Identity readiness
\* initGoogleIdentity: google.accounts.id.initialize either returns, and the
\* button becomes loaded, or throws, and the catch only reports
InitGoogleIdentity(g, throws) ==
  IF g.window = "none"
    THEN g
    ELSE [g EXCEPT !.inits = @ + 1,
                   !.isGoogleLoaded = IF throws THEN @ ELSE TRUE]

KeepsPollingInclusive(count) == count <= PollLimit

KeepsPolling(count) == count < PollLimit

\* checkGoogleIdentity: count the check, then initialise, or schedule the
\* next check, or give up
CheckGoogleIdentity(g, throws) ==
  LET counted == [g EXCEPT !.checkCount = @ + 1, !.timer = FALSE]
  IN IF counted.window = "accounts"
       THEN InitGoogleIdentity(counted, throws)
     ELSE IF KeepsPolling(counted.checkCount)
       THEN [counted EXCEPT !.timer = TRUE]
       ELSE counted

\* the effect of the mounted button: the first check runs at once
MountButton(throws) ==
  /\ ~gsi.mounted
  /\ throws => gsi.window = "accounts"
  /\ gsi' = CheckGoogleIdentity([gsi EXCEPT !.mounted = TRUE], throws)
  /\ UNCHANGED <<idpUser, pending, user, apiToken, storage, defaultHeader,
                 minted, page, calls>>

\* a scheduled check runs
TimerFires(throws) ==
  /\ gsi.timer
  /\ throws => gsi.window = "accounts"
  /\ gsi' = CheckGoogleIdentity(gsi, throws)
  /\ UNCHANGED <<idpUser, pending, user, apiToken, storage, defaultHeader,
                 minted, page, calls>>

\* a script defines window.google, with or without accounts
ScriptLoads(w) ==
  /\ gsi.window # "accounts"
  /\ w # "none"
  /\ w # gsi.window
  /\ gsi' = [gsi EXCEPT !.window = w]
  /\ UNCHANGED <<idpUser, pending, user, apiToken, storage, defaultHeader,
                 minted, page, calls>>

\* the login page before the button's effect has run
PollInit ==
  /\ idpUser = NoUser
  /\ pending = TRUE
  /\ user = InitialUser
  /\ storage = Null
  /\ apiToken = Null
  /\ defaultHeader = NoHeader
  /\ minted = 0
  /\ page = "Login"
  /\ calls = [c \in Calls |-> IdleCall]
  /\ gsi \in {[NoButton EXCEPT !.window = w] : w \in WindowStates}

PollNext ==
  \/ \E throws \in BOOLEAN : MountButton(throws)
  \/ \E throws \in BOOLEAN : TimerFires(throws)
  \/ \E w \in WindowStates : ScriptLoads(w)

PollSpec == PollInit /\ [][PollNext]_vars

\* C29: the readiness check runs at most PollLimit times; the check that finds
\* google.accounts initialises once and schedules nothing; a check that does
\* not find it schedules the next one only below the limit, so after the last
\* check without detection nothing is scheduled and the button is not loaded.
C29_BoundedPolling ==
  /\ [](/\ gsi.checkCount <= PollLimit
        /\ gsi.inits <= 1
        /\ gsi.inits = 1 => ~gsi.timer
        /\ gsi.isGoogleLoaded => gsi.inits = 1
        /\ gsi.timer => gsi.checkCount < PollLimit
        /\ (gsi.checkCount = PollLimit /\ gsi.inits = 0)
             => (~gsi.timer /\ ~gsi.isGoogleLoaded))
  /\ [][ gsi'.checkCount # gsi.checkCount
           => /\ gsi'.checkCount = gsi.checkCount + 1
              /\ IF gsi.window = "accounts"
                   THEN gsi'.inits = gsi.inits + 1 /\ ~gsi'.timer
                   ELSE /\ gsi'.inits = gsi.inits
                        /\ gsi'.isGoogleLoaded = gsi.isGoogleLoaded
                        /\ gsi'.timer = (gsi'.checkCount < PollLimit) ]_vars

\* C29 witness: the last check has run without detecting the service:
\* nothing is scheduled and the button is not loaded.
C29_Witness ==
  /\ gsi.checkCount = PollLimit
  /\ gsi.inits = 0
  /\ ~gsi.timer
  /\ ~gsi.isGoogleLoaded

====
